---- MODULE Spec2Model ----
(***************************************************************************)
(* Trading Journal API (src/main.py, src/schemas.py): the trade store, the *)
(* CRUD handlers that change it and the three analytics handlers           *)
(* (summary, calendar, equity curve) built on trade_realized_pnl.          *)
(*                                                                         *)
(* Values stored in a document are tagged tuples, so that Python's None, a *)
(* number, a datetime and an ISO string stay different values:             *)
(*   <<"null">>      None / JSON null                                      *)
(*   <<"absent">>    the key is not in the document (dict.get default)     *)
(*   <<"num", n>>    a number (exact arithmetic; prices are integers here) *)
(*   <<"date", n>>   a datetime, n instants after 2023-06-01T00:00         *)
(*   <<"str", n>>    the ISO-8601 string of that instant (what a JSON PUT  *)
(*                   body stores)                                          *)
(*   <<"text", s>>   any other string                                      *)
(* Documents keep the fields the analytics read; notes, tags, setup,       *)
(* risk_amount, stop_loss, take_profit, created_at, updated_at and _id are *)
(* written by the CRUD handlers but read by no analytics code.             *)
(***************************************************************************)
EXTENDS Integers, Sequences, FiniteSets, Bags, TLC

VARIABLES
    db,    \* the trade collection: a bag of documents
    resp,  \* the response to the last analytics request since the store
           \* last changed, with the request that produced it
    call   \* a call of trade_realized_pnl on its own: argument and result

vars == <<db, resp, call>>

\* ---------------------------------------------------------------- bounds
MaxTrades == 2
MaxTicks == 1
\* time resolution: instants per calendar day
UnitsPerDay == 2
\* days between two clock readings
TickDays == 135

\* ------------------------------------------------------- program constants
DefaultWindowDays == 180
DefaultFees == 0
Percent == 100

\* ------------------------------------------------------------ value model
None == <<"null">>
Absent == <<"absent">>
Num(n) == <<"num", n>>
Date(n) == <<"date", n>>
IsoStr(n) == <<"str", n>>
Text(s) == <<"text", s>>

IsNone(v) == v = None
IsStr(v) == v[1] = "str"
IsDatetime(v) == v[1] = "date"
IsNum(v) == v[1] = "num"

\* dict.get(key): an absent key reads as None
Get(v) == IF v = Absent THEN None ELSE v
\* dict.get(key, default)
GetDefault(v, dflt) == IF v = Absent THEN dflt ELSE v

\* Python truthiness of the values a document field can hold here
Truthy(v) ==
    CASE v[1] = "null" -> FALSE
      [] v[1] = "absent" -> FALSE
      [] v[1] = "num" -> v[2] # 0
      [] v[1] = "text" -> v[2] # ""
      [] OTHER -> TRUE

\* x or y
PyOr(x, y) == IF Truthy(x) THEN x ELSE y

\* ------------------------------------------------------------- calendar
IsLeap(y) == (y % 4 = 0 /\ y % 100 # 0) \/ y % 400 = 0

DaysInMonth(y, m) ==
    IF m = 2 THEN (IF IsLeap(y) THEN 29 ELSE 28)
    ELSE IF m \in {4, 6, 9, 11} THEN 30 ELSE 31

RECURSIVE YMDFrom(_, _, _)
\* calendar date of the day `ord` days after the first of month m of year y
YMDFrom(y, m, ord) ==
    IF ord < DaysInMonth(y, m) THEN <<y, m, ord + 1>>
    ELSE IF m = 12 THEN YMDFrom(y + 1, 1, ord - DaysInMonth(y, m))
    ELSE YMDFrom(y, m + 1, ord - DaysInMonth(y, m))

\* datetime.date(): drops the time of day
DateOf(n) == YMDFrom(2023, 6, n \div UnitsPerDay)
\* datetime.date().isoformat(): "YYYY-MM-DD" as <<Y, M, D>>
DayKey(d) == DateOf(d[2])
\* datetime.strftime("%Y-%m"): "YYYY-MM" as <<Y, M>>
MonthKey(d) == <<DateOf(d[2])[1], DateOf(d[2])[2]>>
\* datetime.fromisoformat(s)
FromIsoFormat(s) == Date(s[2])
\* d - timedelta(days=k)
MinusDays(d, k) == Date(d[2] - k * UnitsPerDay)

\* the instant `u` units into the day `day` days after 2023-06-01
At(day, u) == day * UnitsPerDay + u

\* str.upper() on the symbols used here
Upper(s) == CASE s = "aaa" -> "AAA" [] s = "bbb" -> "BBB" [] OTHER -> s

\* ------------------------------------------------------ realized PnL
\* float(x): a number converts; None, a datetime or a date string raises
CanFloat(v) == IsNum(v)

\* mutant: the long formula whatever the side
PnlValue_IgnoreSide(t) ==
    (Get(t.exit_price)[2] - Get(t.entry_price)[2]) * Get(t.quantity)[2]
    - GetDefault(t.fees, Num(DefaultFees))[2]

\* the PnL formula
PnlValue(t) ==
    LET entry == Get(t.entry_price)[2]
        exitp == Get(t.exit_price)[2]
        qty == Get(t.quantity)[2]
        fees == GetDefault(t.fees, Num(DefaultFees))[2]
        gross == IF t.side = "long" THEN (exitp - entry) * qty
                 ELSE (entry - exitp) * qty
    IN  gross - fees

\* mutant: the closed flag is not looked at
trade_realized_pnl_NoClosedCheck(t) ==
    IF ~CanFloat(Get(t.entry_price)) THEN None
    ELSE IF ~CanFloat(Get(t.exit_price)) THEN None
    ELSE IF ~CanFloat(Get(t.quantity)) THEN None
    ELSE IF ~CanFloat(GetDefault(t.fees, Num(DefaultFees))) THEN None
    ELSE Num(PnlValue(t))

\* trade_realized_pnl: None when the trade is not closed or any float()
\* raises inside the try block, otherwise the PnL
trade_realized_pnl(t) ==
    IF ~t.closed THEN None
    ELSE IF ~CanFloat(Get(t.entry_price)) THEN None
    ELSE IF ~CanFloat(Get(t.exit_price)) THEN None
    ELSE IF ~CanFloat(Get(t.quantity)) THEN None
    ELSE IF ~CanFloat(GetDefault(t.fees, Num(DefaultFees))) THEN None
    ELSE Num(PnlValue(t))

\* ------------------------------------------------------ sequence helpers
RECURSIVE SumSeq(_)
SumSeq(s) == IF s = <<>> THEN 0 ELSE Head(s) + SumSeq(Tail(s))

Abs(n) == IF n < 0 THEN -n ELSE n

RECURSIVE Gcd(_, _)
Gcd(a, b) == IF b = 0 THEN a ELSE Gcd(b, a % b)

\* exact value of a float quotient n / d (d # 0), in lowest terms
Rat(n, d) ==
    LET g == Gcd(Abs(n), Abs(d))
        sgn == IF d < 0 THEN -1 ELSE 1
    IN  <<sgn * (n \div g), sgn * (d \div g)>>

\* float('inf')
Inf == <<1, 0>>
\* the outcome of n / 0
ZeroDivisionError == <<0, 0>>

\* Python's n / d
PyDiv(n, d) == IF d = 0 THEN ZeroDivisionError ELSE Rat(n, d)

\* float arithmetic on quotients; a raised ZeroDivisionError propagates
Raised(a, b) == a = ZeroDivisionError \/ b = ZeroDivisionError
RatMul(a, b) ==
    IF Raised(a, b) THEN ZeroDivisionError ELSE Rat(a[1] * b[1], a[2] * b[2])
RatAdd(a, b) ==
    IF Raised(a, b) THEN ZeroDivisionError
    ELSE Rat(a[1] * b[2] + b[1] * a[2], a[2] * b[2])
RatSub(a, b) ==
    IF Raised(a, b) THEN ZeroDivisionError
    ELSE Rat(a[1] * b[2] - b[1] * a[2], a[2] * b[2])

\* dict() and the get-or-default accumulation m[k] = m.get(k, 0.0) + v
EmptyMap == [k \in {} |-> 0]
MapGet(m, k, dflt) == IF k \in DOMAIN m THEN m[k] ELSE dflt
MapAdd(m, k, v) ==
    [x \in DOMAIN m \cup {k} |-> IF x = k THEN MapGet(m, k, 0) + v ELSE m[x]]

\* ------------------------------------------------------ the trade store
\* list(cursor): the documents of a bag, in one of the store's orders
RECURSIVE BagToSeq(_)
BagToSeq(b) ==
    IF BagToSet(b) = {} THEN <<>>
    ELSE LET d == CHOOSE x \in BagToSet(b) : TRUE
         IN  <<d>> \o BagToSeq(b (-) SetToBag({d}))

\* db.trade.find(q) of analytics_summary: equality on symbol and strategy,
\* a range on entry_date (a range bound that is a datetime matches only
\* fields holding a datetime)
SummaryMatch(t, symbol, strategy, start, end) ==
    /\ Truthy(symbol) => t.symbol = Upper(symbol[2])
    /\ Truthy(strategy) => t.strategy = strategy
    /\ Truthy(start) =>
          IsDatetime(t.entry_date) /\ t.entry_date[2] >= FromIsoFormat(start)[2]
    /\ Truthy(end) =>
          IsDatetime(t.entry_date) /\ t.entry_date[2] <= FromIsoFormat(end)[2]

SummaryFind(store, symbol, strategy, start, end) ==
    SelectSeq(BagToSeq(store),
              LAMBDA t : SummaryMatch(t, symbol, strategy, start, end))

\* db.trade.find({"closed": True, "exit_date": {"$gte": s, "$lte": e}})
CalendarMatch(t, start_dt, end_dt) ==
    /\ t.closed = TRUE
    /\ IsDatetime(t.exit_date)
    /\ t.exit_date[2] >= start_dt[2]
    /\ t.exit_date[2] <= end_dt[2]

CalendarFind(store, start_dt, end_dt) ==
    SelectSeq(BagToSeq(store), LAMBDA t : CalendarMatch(t, start_dt, end_dt))

\* db.trade.find({"closed": True, "exit_price": {"$ne": None}})
EquityMatch(t) == t.closed = TRUE /\ ~IsNone(Get(t.exit_price))

EquityFind(store) == SelectSeq(BagToSeq(store), LAMBDA t : EquityMatch(t))

\* .sort("exit_date", 1): the store compares values of different types by
\* type first (null < number < string < date), then by value
TypeRank(v) ==
    CASE v[1] = "null" -> 1
      [] v[1] = "absent" -> 1
      [] v[1] = "num" -> 2
      [] v[1] = "str" -> 3
      [] v[1] = "text" -> 3
      [] OTHER -> 9

SortValue(v) == IF v[1] \in {"num", "str", "date"} THEN v[2] ELSE 0

SortLE(a, b) ==
    \/ TypeRank(a) < TypeRank(b)
    \/ TypeRank(a) = TypeRank(b) /\ SortValue(a) <= SortValue(b)

Perms(n) == {f \in [1..n -> 1..n] : \A i, j \in 1..n : f[i] = f[j] => i = j}

\* every order the sort may return: ascending by exit_date, ties in any order
SortByExitDate(s) ==
    {[i \in 1..Len(s) |-> s[p[i]]] : p \in
        {q \in Perms(Len(s)) : \A i \in 1..Len(s) - 1 :
            SortLE(s[q[i]].exit_date, s[q[i + 1]].exit_date)}}

\* --------------------------------------------------- analytics_summary
\* closed_trades = [t for t in trades if t.get("closed")]
ClosedTrades(trades) == SelectSeq(trades, LAMBDA t : t.closed)

RECURSIVE PnlList(_)
\* pnls: the PnL of every closed trade on which trade_realized_pnl is not None
PnlList(closed) ==
    IF closed = <<>> THEN <<>>
    ELSE LET pnl == trade_realized_pnl(Head(closed))
         IN  IF IsNone(pnl) THEN PnlList(Tail(closed))
             ELSE <<pnl[2]>> \o PnlList(Tail(closed))

\* mutant: a PnL of 0 is not a win
Wins_Strict(pnls) == SelectSeq(pnls, LAMBDA x : x > 0)

\* wins: pnl >= 0; losses: the rest
Wins(pnls) == SelectSeq(pnls, LAMBDA x : x >= 0)
Losses(pnls) == SelectSeq(pnls, LAMBDA x : ~(x >= 0))

NetPnl(pnls) == IF pnls # <<>> THEN SumSeq(pnls) ELSE 0

WinRate(pnls) ==
    IF pnls # <<>>
    THEN RatMul(PyDiv(Len(Wins(pnls)), Len(pnls)), <<Percent, 1>>)
    ELSE <<0, 1>>

AvgWin(pnls) ==
    IF Wins(pnls) # <<>> THEN PyDiv(SumSeq(Wins(pnls)), Len(Wins(pnls)))
    ELSE <<0, 1>>

AvgLoss(pnls) ==
    IF Losses(pnls) # <<>>
    THEN PyDiv(SumSeq(Losses(pnls)), Len(Losses(pnls)))
    ELSE <<0, 1>>

\* mutant: the division is guarded by the wins only
ProfitFactor_Unguarded(pnls) ==
    IF SelectSeq(pnls, LAMBDA x : x >= 0) # <<>>
    THEN PyDiv(SumSeq(SelectSeq(pnls, LAMBDA x : x >= 0)),
               Abs(SumSeq(SelectSeq(pnls, LAMBDA x : ~(x >= 0)))))
    ELSE <<0, 1>>

ProfitFactor(pnls) ==
    IF Wins(pnls) # <<>> /\ Losses(pnls) # <<>>
    THEN PyDiv(SumSeq(Wins(pnls)), Abs(SumSeq(Losses(pnls))))
    ELSE IF Wins(pnls) # <<>> /\ ~(Losses(pnls) # <<>>) THEN Inf
    ELSE <<0, 1>>

Expectancy(pnls) ==
    LET wr == RatMul(WinRate(pnls), <<1, Percent>>)
    IN  RatAdd(RatMul(wr, AvgWin(pnls)),
               RatMul(RatSub(<<1, 1>>, wr), AvgLoss(pnls)))

RECURSIVE BySymbol(_, _)
BySymbol(closed, m) ==
    IF closed = <<>> THEN m
    ELSE LET t == Head(closed)
             pnl == trade_realized_pnl(t)
         IN  IF IsNone(pnl) THEN BySymbol(Tail(closed), m)
             ELSE BySymbol(Tail(closed), MapAdd(m, t.symbol, pnl[2]))

\* mutant: no sentinel label for a missing strategy
StrategyLabel_NoDefault(t) == Get(t.strategy)

\* strat = t.get("strategy") or "Unlabeled"
StrategyLabel(t) == PyOr(Get(t.strategy), Text("Unlabeled"))

RECURSIVE ByStrategy(_, _)
ByStrategy(closed, m) ==
    IF closed = <<>> THEN m
    ELSE LET t == Head(closed)
             pnl == trade_realized_pnl(t)
         IN  IF IsNone(pnl) THEN ByStrategy(Tail(closed), m)
             ELSE ByStrategy(Tail(closed), MapAdd(m, StrategyLabel(t), pnl[2]))

\* mutant: entry_date first, exit_date as the fallback
MonthlyDate_EntryFirst(t) ==
    LET d == PyOr(Get(t.entry_date), Get(t.exit_date))
    IN  IF IsStr(d) THEN FromIsoFormat(d) ELSE d

\* d = t.get("exit_date") or t.get("entry_date"), parsed when it is a string
MonthlyDate(t) ==
    LET d == PyOr(Get(t.exit_date), Get(t.entry_date))
    IN  IF IsStr(d) THEN FromIsoFormat(d) ELSE d

RECURSIVE Monthly(_, _)
Monthly(closed, m) ==
    IF closed = <<>> THEN m
    ELSE LET t == Head(closed)
             pnl == trade_realized_pnl(t)
             d == MonthlyDate(t)
         IN  IF IsNone(pnl) THEN Monthly(Tail(closed), m)
             ELSE IF IsDatetime(d)
                  THEN Monthly(Tail(closed), MapAdd(m, MonthKey(d), pnl[2]))
                  ELSE Monthly(Tail(closed), m)

\* the response of analytics_summary on the fetched trades
SummaryReport(trades) ==
    LET closed == ClosedTrades(trades)
        pnls == PnlList(closed)
        stats == <<WinRate(pnls), AvgWin(pnls), AvgLoss(pnls),
                   ProfitFactor(pnls), Expectancy(pnls)>>
    IN  IF \E i \in 1..Len(stats) : stats[i] = ZeroDivisionError
        THEN [status |-> 500, error |-> "ZeroDivisionError"]
        ELSE [status |-> 200,
              total_trades |-> Len(trades),
              closed_trades |-> Len(closed),
              win_rate |-> stats[1],
              net_pnl |-> NetPnl(pnls),
              avg_win |-> stats[2],
              avg_loss |-> stats[3],
              profit_factor |-> stats[4],
              expectancy |-> stats[5],
              by_symbol |-> BySymbol(closed, EmptyMap),
              by_strategy |-> ByStrategy(closed, EmptyMap),
              monthly |-> Monthly(closed, EmptyMap)]

\* --------------------------------------------------- analytics_calendar
\* mutant: the end of the window is always the clock
EndDt_AlwaysClock(end, clock) == Date(clock)

\* the date window: end defaults to the clock, start to 180 days before end
EndDt(end, clock) == IF Truthy(end) THEN FromIsoFormat(end) ELSE Date(clock)
StartDt(start, end_dt) ==
    IF Truthy(start) THEN FromIsoFormat(start)
    ELSE MinusDays(end_dt, DefaultWindowDays)

\* d = t.get("exit_date"), parsed when it is a string
ExitDate(t) ==
    LET d == Get(t.exit_date)
    IN  IF IsStr(d) THEN FromIsoFormat(d) ELSE d

RECURSIVE ByDay_NoSkip(_, _)
\* mutant: a trade without a PnL is not skipped, its day gets 0
ByDay_NoSkip(trades, m) ==
    IF trades = <<>> THEN [ok |-> TRUE, daily |-> m]
    ELSE LET t == Head(trades)
             pnl == trade_realized_pnl(t)
             d == IF IsStr(Get(t.exit_date)) THEN FromIsoFormat(Get(t.exit_date))
                  ELSE Get(t.exit_date)
         IN  IF ~IsDatetime(d) THEN [ok |-> FALSE, daily |-> m]
             ELSE ByDay_NoSkip(Tail(trades),
                               MapAdd(m, DayKey(d),
                                      IF IsNone(pnl) THEN 0 ELSE pnl[2]))

RECURSIVE ByDay(_, _)
\* by_day, or "AttributeError" when d.date() is called on a non-datetime
ByDay(trades, m) ==
    IF trades = <<>> THEN [ok |-> TRUE, daily |-> m]
    ELSE LET t == Head(trades)
             pnl == trade_realized_pnl(t)
             d == ExitDate(t)
         IN  IF IsNone(pnl) THEN ByDay(Tail(trades), m)
             ELSE IF ~IsDatetime(d) THEN [ok |-> FALSE, daily |-> m]
             ELSE ByDay(Tail(trades), MapAdd(m, DayKey(d), pnl[2]))

\* the response of analytics_calendar on the fetched trades
CalendarReport(trades, start_dt, end_dt) ==
    LET r == ByDay(trades, EmptyMap)
    IN  IF ~r.ok THEN [status |-> 500, error |-> "AttributeError"]
        ELSE [status |-> 200,
              start |-> DayKey(start_dt),
              end |-> DayKey(end_dt),
              daily |-> r.daily]

\* ------------------------------------------------ analytics_equity_curve
RECURSIVE Curve(_, _, _)
\* the loop over the sorted trades: cum, curve, or "AttributeError" when
\* d.date() is called on a non-datetime
Curve(trades, cum, curve) ==
    IF trades = <<>> THEN [ok |-> TRUE, points |-> curve]
    ELSE LET t == Head(trades)
             pnl == trade_realized_pnl(t)
             d == ExitDate(t)
         IN  IF IsNone(pnl) THEN Curve(Tail(trades), cum, curve)
             ELSE IF ~IsDatetime(d) THEN [ok |-> FALSE, points |-> curve]
             ELSE Curve(Tail(trades), cum + pnl[2],
                        Append(curve, [date |-> DayKey(d),
                                       equity |-> cum + pnl[2]]))

\* the response of analytics_equity_curve on the sorted trades
EquityReport(sorted) ==
    LET r == Curve(sorted, 0, <<>>)
    IN  IF ~r.ok THEN [status |-> 500, error |-> "AttributeError"]
        ELSE [status |-> 200, points |-> r.points]

\* ------------------------------------------------------------ requests
\* a validated POST body (schemas.Trade.model_dump())
Trade(symbol, side, strategy, entry_date, exit_date, exit_price, quantity, fees, closed) ==
    [symbol |-> symbol, side |-> side, strategy |-> strategy,
     entry_date |-> entry_date, exit_date |-> exit_date,
     entry_price |-> Num(100), exit_price |-> exit_price,
     quantity |-> quantity, fees |-> fees, closed |-> closed]

\* instants used by the requests
Dec28 == Date(At(210, 0))
Jan20 == Date(At(233, 0))
Jan20Noon == Date(At(233, 1))
Mar15Noon == Date(At(288, 1))
Jan01Str == IsoStr(At(214, 0))
Mar15Str == IsoStr(At(288, 0))
Mar31Str == IsoStr(At(304, 0))
\* the earliest clock reading: 2024-03-10T12:00
Now0 == At(283, 1)

\* long 100 -> 110 x 10, fees 5: PnL 95
PLongWin == Trade("aaa", "long", None, Dec28, Jan20, Num(110), Num(10),
                  Num(5), FALSE)
\* long 100 -> 100 x 10, fees 3: PnL -3, closing the day PLongWin closes
PLoss == Trade("AAA", "long", None, Dec28, Jan20Noon, Num(100), Num(10),
               Num(3), FALSE)
\* an exit price but no exit date, not marked closed
POpen == Trade("AAA", "long", None, Jan20, None, Num(110), Num(10), Num(5),
               FALSE)
\* marked closed by the caller with an exit price and no exit date:
\* short 100 -> 100, no fees: PnL 0
PNoExitDate == Trade("BBB", "short", Text("S1"), Jan20, None, Num(100),
                     Num(5), Num(0), TRUE)

Payloads == {PLongWin, PLoss, POpen, PNoExitDate}

\* JSON bodies of PUT /api/trades/{id}
Patches == {[fees |-> None], [entry_date |-> None], [exit_date |-> Mar15Str]}

\* query strings of GET /api/analytics/summary: symbol, strategy, start, end
SummaryRequests ==
    {<<None, None, None, None>>,
     <<Text("aaa"), None, None, None>>,
     <<None, Text("S1"), Jan01Str, Mar31Str>>}

\* query strings of GET /api/analytics/calendar: start, end
CalendarRequests == {<<None, None>>, <<Jan01Str, Mar31Str>>}

\* the readings datetime.now(timezone.utc) can return
Clocks == {Now0 + k * TickDays * UnitsPerDay : k \in 0..MaxTicks}

\* the dicts trade_realized_pnl is called on in isolation
TradeDicts ==
    [symbol : {"AAA"}, side : {"long", "short"}, strategy : {None},
     entry_date : {Jan20}, exit_date : {Mar15Noon},
     entry_price : {Absent, None, Num(100)},
     exit_price : {Absent, None, Num(110), Num(90)},
     quantity : {Absent, None, Num(10), Num(5)},
     fees : {Absent, None, Num(0), Num(5), Num(2)},
     closed : BOOLEAN]

NoResp == [kind |-> "none"]
NoCall == [called |-> FALSE]

\* the request repeats the one `resp` answers (the store unchanged in between)
Repeats(kind, req) == resp.kind = kind /\ resp.req = req

\* ------------------------------------------------------------- actions
Init ==
    /\ db = EmptyBag
    /\ resp = NoResp
    /\ call = NoCall

\* POST /api/trades
create_trade(payload) ==
    /\ BagCardinality(db) < MaxTrades
    /\ LET upper == [payload EXCEPT !.symbol = Upper(payload.symbol)]
           data == IF Truthy(upper.exit_price) /\ Truthy(upper.exit_date)
                   THEN [upper EXCEPT !.closed = TRUE]
                   ELSE upper
       IN  db' = db (+) SetToBag({data})
    /\ resp' = NoResp
    /\ UNCHANGED call

\* {"$set": payload} on one document
SetFields(doc, payload) ==
    [f \in DOMAIN doc |-> IF f \in DOMAIN payload THEN payload[f] ELSE doc[f]]

\* PUT /api/trades/{trade_id} on a stored document
update_trade(doc, payload) ==
    /\ doc \in BagToSet(db)
    /\ LET upper == IF "symbol" \in DOMAIN payload
                    THEN [payload EXCEPT !.symbol = Upper(payload.symbol)]
                    ELSE payload
       IN  db' = (db (-) SetToBag({doc})) (+) SetToBag({SetFields(doc, upper)})
    /\ resp' = NoResp
    /\ UNCHANGED call

\* DELETE /api/trades/{trade_id} on a stored document
delete_trade(doc) ==
    /\ doc \in BagToSet(db)
    /\ db' = db (-) SetToBag({doc})
    /\ resp' = NoResp
    /\ UNCHANGED call

\* GET /api/analytics/summary
analytics_summary(req) ==
    /\ resp' = [kind |-> "summary", req |-> req,
                again |-> Repeats("summary", req),
                out |-> SummaryReport(
                    SummaryFind(db, req[1], req[2], req[3], req[4]))]
    /\ UNCHANGED <<db, call>>

\* GET /api/analytics/calendar, the clock reading `now` (no earlier than the
\* reading of the calendar request answered just before)
analytics_calendar(req, now) ==
    /\ resp.kind = "calendar" => now >= resp.at
    /\ LET end_dt == EndDt(req[2], now)
           start_dt == StartDt(req[1], end_dt)
       IN  resp' = [kind |-> "calendar", req |-> req, at |-> now,
                    again |-> Repeats("calendar", req),
                    out |-> CalendarReport(
                        CalendarFind(db, start_dt, end_dt), start_dt, end_dt)]
    /\ UNCHANGED <<db, call>>

\* GET /api/analytics/equity_curve
analytics_equity_curve ==
    /\ \E sorted \in SortByExitDate(EquityFind(db)) :
          resp' = [kind |-> "equity_curve", req |-> <<>>, inp |-> sorted,
                   again |-> Repeats("equity_curve", <<>>),
                   out |-> EquityReport(sorted)]
    /\ UNCHANGED <<db, call>>

Next ==
    \/ \E payload \in Payloads : create_trade(payload)
    \/ \E doc \in BagToSet(db), payload \in Patches : update_trade(doc, payload)
    \/ \E doc \in BagToSet(db) : delete_trade(doc)
    \/ \E req \in SummaryRequests : analytics_summary(req)
    \/ \E req \in CalendarRequests, now \in Clocks : analytics_calendar(req, now)
    \/ analytics_equity_curve

Spec == Init /\ [][Next]_vars

\* trade_realized_pnl on its own: one call on any dict of TradeDicts
InitPnl ==
    /\ db = EmptyBag
    /\ resp = NoResp
    /\ call \in {[called |-> FALSE, trade |-> t] : t \in TradeDicts}

CallPnl ==
    /\ ~call.called
    /\ call' = [called |-> TRUE, trade |-> call.trade,
                ret |-> trade_realized_pnl(call.trade)]
    /\ UNCHANGED <<db, resp>>

NextPnl == CallPnl

PnlSpec == InitPnl /\ [][NextPnl]_vars

\* ================================================================ claims
\* the documents of the store, and the trades a summary request fetched
Docs == BagToSet(db)
SummaryInput == SummaryFind(db, resp.req[1], resp.req[2], resp.req[3], resp.req[4])
IsSummary == resp.kind = "summary"

\* PnL-computable as the specification defines it
ClaimComputable(t) ==
    /\ t.closed = TRUE
    /\ IsNum(t.entry_price) /\ IsNum(t.exit_price) /\ IsNum(t.quantity)

\* the PnL the specification's formula gives
ClaimPnl(t) ==
    LET fees == IF t.fees = Absent THEN 0 ELSE t.fees[2]
    IN  IF t.side = "long"
        THEN (t.exit_price[2] - t.entry_price[2]) * t.quantity[2] - fees
        ELSE (t.entry_price[2] - t.exit_price[2]) * t.quantity[2] - fees

HasPnl(t) == ~IsNone(trade_realized_pnl(t))

RECURSIVE TotalPnl(_)
\* the sum of the PnL of the trades of a sequence that have one
TotalPnl(ts) ==
    IF ts = <<>> THEN 0
    ELSE (IF HasPnl(Head(ts)) THEN trade_realized_pnl(Head(ts))[2] ELSE 0)
         + TotalPnl(Tail(ts))

CountWhere(ts, P(_)) == Cardinality({i \in 1..Len(ts) : P(ts[i])})

\* C1: whenever trade_realized_pnl returns a value, the value is
\* (exit - entry) * quantity - fees for a long trade and
\* (entry - exit) * quantity - fees for a short one, fees being 0 when the
\* dict has no fees key (long 100 -> 110 x 10 fees 5: 95; short 100 -> 90 x 5
\* fees 2: 48).
C1_PnlFormula ==
    (call.called /\ ~IsNone(call.ret)) => call.ret = Num(ClaimPnl(call.trade))

\* C1 witness: the call returned 50 for a closed short trade 100 -> 90 x 5
\* without a fees key.
C1_Witness ==
    /\ call.called
    /\ call.trade.side = "short"
    /\ call.trade.fees = Absent
    /\ call.trade.exit_price = Num(90) /\ call.trade.quantity = Num(5)
    /\ call.ret = Num(50)

\* C2 as stated: trade_realized_pnl returns a value exactly when the trade is
\* closed and entry_price, exit_price and quantity are present and numeric.
C2_Original ==
    call.called => (~IsNone(call.ret) <=> ClaimComputable(call.trade))

\* C2 amended: trade_realized_pnl returns None or a number, and a number
\* exactly when the trade is closed, entry_price, exit_price and quantity are
\* present and numeric, and fees is absent or numeric; with closed false it
\* returns None whatever the other fields hold.
C2_Amended ==
    call.called =>
        /\ IsNone(call.ret) \/ IsNum(call.ret)
        /\ ~IsNone(call.ret) <=>
              /\ ClaimComputable(call.trade)
              /\ call.trade.fees = Absent \/ IsNum(call.trade.fees)
        /\ ~call.trade.closed => IsNone(call.ret)

\* C2 witness: the call returned None for a trade that is not closed and has
\* every price field set.
C2_Witness ==
    /\ call.called
    /\ ~call.trade.closed
    /\ IsNum(call.trade.entry_price) /\ IsNum(call.trade.exit_price)
    /\ IsNum(call.trade.quantity) /\ IsNum(call.trade.fees)
    /\ IsNone(call.ret)

\* C2, in the running service: a PUT with {"fees": null} has stored a closed
\* trade with numeric prices and quantity on which trade_realized_pnl is None.
C2_StoredNullFees ==
    \E t \in Docs : ClaimComputable(t) /\ IsNone(t.fees) /\ ~HasPnl(t)

\* C3: a summary reports total_trades = number of fetched trades,
\* closed_trades = number of fetched trades with closed true, win_rate =
\* 100 * (count of PnL >= 0) / (count of PnL values), and net_pnl = the sum
\* of the PnL values; trades without a PnL enter none of these sums.
C3_Counts ==
    IsSummary =>
        LET inp == SummaryInput
            n == CountWhere(inp, HasPnl)
            w == CountWhere(inp, LAMBDA t : HasPnl(t) /\ trade_realized_pnl(t)[2] >= 0)
        IN  /\ resp.out.status = 200
            /\ resp.out.total_trades = Len(inp)
            /\ resp.out.closed_trades = CountWhere(inp, LAMBDA t : t.closed = TRUE)
            /\ resp.out.win_rate = IF n = 0 THEN <<0, 1>> ELSE Rat(100 * w, n)
            /\ resp.out.net_pnl = TotalPnl(inp)

\* C3 witness: two closed trades, one whose fees are null (no PnL) and one
\* with PnL 0: closed_trades is 2, the only PnL value is 0 and it is a win.
C3_Witness ==
    /\ IsSummary
    /\ resp.out.total_trades = 2
    /\ resp.out.closed_trades = 2
    /\ CountWhere(SummaryInput, HasPnl) = 1
    /\ resp.out.net_pnl = 0
    /\ resp.out.win_rate = <<100, 1>>

\* C4: a summary never raises ZeroDivisionError; without any PnL value
\* win_rate, net_pnl, avg_win, avg_loss and profit_factor are 0;
\* profit_factor is sum(wins) / abs(sum(losses)) with wins and losses,
\* infinity with wins only and 0 without wins.
C4_NoZeroDivision ==
    IsSummary =>
        LET pnls == PnlList(ClosedTrades(SummaryInput))
            wins == {i \in 1..Len(pnls) : pnls[i] >= 0}
            losses == {i \in 1..Len(pnls) : pnls[i] < 0}
            sumw == SumSeq(SelectSeq(pnls, LAMBDA x : x >= 0))
            suml == SumSeq(SelectSeq(pnls, LAMBDA x : x < 0))
        IN  /\ resp.out.status = 200
            /\ pnls = <<>> =>
                  /\ resp.out.win_rate = <<0, 1>>
                  /\ resp.out.net_pnl = 0
                  /\ resp.out.avg_win = <<0, 1>>
                  /\ resp.out.avg_loss = <<0, 1>>
                  /\ resp.out.profit_factor = <<0, 1>>
            /\ (wins # {} /\ losses # {}) =>
                  resp.out.profit_factor = Rat(sumw, Abs(suml))
            /\ (wins # {} /\ losses = {}) => resp.out.profit_factor = Inf
            /\ wins = {} => resp.out.profit_factor = <<0, 1>>

\* C4 witness: a summary over fetched trades none of which has a PnL.
C4_Witness ==
    /\ IsSummary
    /\ resp.out.total_trades >= 1
    /\ PnlList(ClosedTrades(SummaryInput)) = <<>>
    /\ resp.out.profit_factor = <<0, 1>>
    /\ resp.out.win_rate = <<0, 1>>

IsEquity == resp.kind = "equity_curve"
IsCalendar == resp.kind = "calendar"

\* "YYYY-MM-DD" order
DayLE(a, b) ==
    \/ a[1] < b[1]
    \/ a[1] = b[1] /\ a[2] < b[2]
    \/ a[1] = b[1] /\ a[2] = b[2] /\ a[3] <= b[3]

\* C5 as stated: the points an equity curve returns are in non-decreasing
\* date order, and the equity of the last point is the net_pnl a summary
\* computes over the same trades (no point: net_pnl 0).
C5_Original ==
    (IsEquity /\ resp.out.status = 200) =>
        LET pts == resp.out.points
            net == SummaryReport(EquityFind(db)).net_pnl
        IN  /\ \A i \in 1..Len(pts) - 1 : DayLE(pts[i].date, pts[i + 1].date)
            /\ IF pts = <<>> THEN net = 0 ELSE pts[Len(pts)].equity = net

\* the calendar day an exit_date falls on, and the trades a calendar request
\* fetched
ClaimDay(v) == DateOf(v[2])
CalendarInput ==
    LET end_dt == EndDt(resp.req[2], resp.at)
    IN  CalendarFind(db, StartDt(resp.req[1], end_dt), end_dt)

\* C6: the daily mapping of a calendar response has a key exactly for the
\* days on which a fetched trade with a PnL has its exit_date, and each value
\* is the sum of the PnL of those trades; no other day is present.
C6_SparseDaily ==
    IsCalendar =>
        LET inp == CalendarInput
            days == {ClaimDay(inp[i].exit_date) :
                        i \in {j \in 1..Len(inp) : HasPnl(inp[j])}}
        IN  /\ resp.out.status = 200
            /\ DOMAIN resp.out.daily = days
            /\ \A k \in days :
                  resp.out.daily[k] =
                      TotalPnl(SelectSeq(inp, LAMBDA t : ClaimDay(t.exit_date) = k))

\* C6 witness: two trades closed on 2024-01-20 (PnL 95 and -3) and nothing
\* else in the window: the mapping is exactly {2024-01-20: 92}.
C6_Witness ==
    /\ IsCalendar
    /\ Len(CalendarInput) = 2
    /\ DOMAIN resp.out.daily = {<<2024, 1, 20>>}
    /\ resp.out.daily[<<2024, 1, 20>>] = 92

RECURSIVE MapSum(_)
\* the sum of the values of a mapping
MapSum(m) ==
    IF DOMAIN m = {} THEN 0
    ELSE LET k == CHOOSE x \in DOMAIN m : TRUE
         IN  m[k] + MapSum([x \in DOMAIN m \ {k} |-> m[x]])

\* the date the specification buckets a trade by: exit_date when present,
\* entry_date otherwise
ClaimMonthDate(t) == IF ~IsNone(t.exit_date) THEN t.exit_date ELSE t.entry_date
ClaimMonth(t) ==
    <<DateOf(ClaimMonthDate(t)[2])[1], DateOf(ClaimMonthDate(t)[2])[2]>>
Dated(t) == ~IsNone(ClaimMonthDate(t))

\* C7: in a summary every trade with a PnL and a date adds its PnL to the
\* one monthly key of its exit_date, or of its entry_date when it has no
\* exit_date; a trade with a PnL and no date is in no monthly key and still
\* in total_trades, closed_trades, net_pnl, by_symbol and by_strategy.
C7_Monthly ==
    IsSummary =>
        LET inp == SummaryInput
            dated == SelectSeq(inp, LAMBDA t : HasPnl(t) /\ Dated(t))
            months == {ClaimMonth(dated[i]) : i \in 1..Len(dated)}
        IN  /\ resp.out.status = 200
            /\ DOMAIN resp.out.monthly = months
            /\ \A k \in months :
                  resp.out.monthly[k] =
                      TotalPnl(SelectSeq(dated, LAMBDA t : ClaimMonth(t) = k))
            /\ resp.out.total_trades = Len(inp)
            /\ resp.out.closed_trades = CountWhere(inp, LAMBDA t : t.closed = TRUE)
            /\ resp.out.net_pnl = TotalPnl(inp)
            /\ MapSum(resp.out.by_symbol) = TotalPnl(inp)
            /\ MapSum(resp.out.by_strategy) = TotalPnl(inp)

\* C7 witness: a trade entered 2023-12-28 and closed 2024-01-20 (AAA, PnL 95)
\* and a trade with a PnL and neither date (BBB): monthly is {2024-01: 95},
\* and the undated trade is in total_trades, closed_trades and by_symbol.
C7_Witness ==
    /\ IsSummary
    /\ \E t \in Docs : /\ HasPnl(t) /\ t.symbol = "BBB"
                       /\ IsNone(t.exit_date) /\ IsNone(t.entry_date)
    /\ \E t \in Docs : HasPnl(t) /\ t.entry_date = Dec28 /\ t.exit_date = Jan20
    /\ DOMAIN resp.out.monthly = {<<2024, 1>>}
    /\ resp.out.monthly[<<2024, 1>>] = 95
    /\ DOMAIN resp.out.by_symbol = {"AAA", "BBB"}
    /\ resp.out.total_trades = 2
    /\ resp.out.closed_trades = 2

\* the label the specification groups a trade under
ClaimLabel(t) == IF IsNone(t.strategy) THEN Text("Unlabeled") ELSE t.strategy

\* C8: by_strategy of a summary has a key exactly for the labels of the
\* fetched trades with a PnL, a trade without a strategy counting under
\* "Unlabeled"; each value is the sum of the PnL of the trades with that
\* label, and the values add up to net_pnl.
C8_ByStrategy ==
    IsSummary =>
        LET inp == SelectSeq(SummaryInput, HasPnl)
            labels == {ClaimLabel(inp[i]) : i \in 1..Len(inp)}
        IN  /\ DOMAIN resp.out.by_strategy = labels
            /\ \A k \in labels :
                  resp.out.by_strategy[k] =
                      TotalPnl(SelectSeq(inp, LAMBDA t : ClaimLabel(t) = k))
            /\ MapSum(resp.out.by_strategy) = resp.out.net_pnl

\* C8 witness: two trades without a strategy, PnL 95 and -3: Unlabeled = 92.
C8_Witness ==
    /\ IsSummary
    /\ CountWhere(SummaryInput, LAMBDA t : HasPnl(t) /\ IsNone(t.strategy)) = 2
    /\ DOMAIN resp.out.by_strategy = {Text("Unlabeled")}
    /\ resp.out.by_strategy[Text("Unlabeled")] = 92
    /\ resp.out.net_pnl = 92

\* a step that answers again the request `resp` answers
RepeatStep ==
    /\ resp.kind # "none"
    /\ resp'.kind = resp.kind
    /\ resp'.req = resp.req
    /\ resp'.again

\* C9 as stated: a request repeated on the unchanged store is answered with
\* the same output, and no analytics request changes the store.
C9_Original ==
    [][/\ RepeatStep => resp'.out = resp.out
       /\ resp'.kind # "none" => db' = db]_vars

\* C9 amended: a request repeated on the unchanged store is answered with the
\* same output when the store returns the trades in the same order and, for
\* the calendar, the end bound is supplied or the clock reads the same; no
\* analytics request changes the store.
C9_Amended ==
    [][/\ ( /\ RepeatStep
            /\ resp.kind = "calendar" => (Truthy(resp.req[2]) \/ resp'.at = resp.at)
            /\ resp.kind = "equity_curve" => resp'.inp = resp.inp )
          => resp'.out = resp.out
       /\ resp'.kind # "none" => db' = db]_vars

\* C9 witness: a calendar request with the end bound supplied was repeated
\* after the clock advanced, over a store holding a trade in the window.
C9_Witness ==
    /\ IsCalendar
    /\ resp.again
    /\ Truthy(resp.req[2])
    /\ resp.at > Now0
    /\ DOMAIN resp.out.daily # {}

RECURSIVE RunningSums(_, _)
\* the running sums of the PnL of the trades of a sequence that have one
RunningSums(ts, cum) ==
    IF ts = <<>> THEN <<>>
    ELSE IF HasPnl(Head(ts))
         THEN <<cum + trade_realized_pnl(Head(ts))[2]>>
              \o RunningSums(Tail(ts), cum + trade_realized_pnl(Head(ts))[2])
         ELSE RunningSums(Tail(ts), cum)

\* C10 as stated: an equity curve request never fails and returns one point
\* per fetched trade with a PnL, in the order of the walk, whose equity is
\* the running sum of the PnL up to and including that trade.
C10_Original ==
    IsEquity =>
        /\ resp.out.status = 200
        /\ Len(resp.out.points) = CountWhere(resp.inp, HasPnl)
        /\ \A i \in 1..Len(resp.out.points) :
              resp.out.points[i].equity = RunningSums(resp.inp, 0)[i]

====
